---------------------------- MODULE Spec2Model ----------------------------
(***************************************************************************)
(* A model of the recursive indicators of ta-rust: the parabolic SAR       *)
(* automaton (sar, sarext), the Wilder oscillator (rsi), the directional   *)
(* movement chain (plus_dm .. adx) and the dominant-cycle period recursion *)
(* of mama.                                                                *)
(*                                                                         *)
(* f64 values are modelled as exact rationals <<n, d>> in lowest terms     *)
(* with d > 0, extended with the IEEE specials <<0,0>> (NaN), <<1,0>>      *)
(* (+inf) and <<-1,0>> (-inf).  Arithmetic is exact, except in mama, whose *)
(* long recursion is rounded to tenths after every operation.          *)
(***************************************************************************)
EXTENDS Integers, Sequences, FiniteSets, TLC

VARIABLES
    fn,          \* the function being called
    pc,          \* "call" | "scan" | "done" | "err"
    err,         \* the TAError kind returned, "none" while Ok
    args,        \* the scalar arguments of the call
    len,         \* high.len()
    low_len,     \* low.len()
    i,           \* index of the bar processed last
    hi, lo,      \* high[i], low[i]
    hi_1, lo_1,  \* high[i-1], low[i-1]
    is_long, sar, ep, af,    \* the automaton's locals (sar.rs 66-69)
    prev_sar,    \* sar.rs 102
    tent,        \* the value of line 105 (sar.rs) / 118 (sarext.rs), before the clamp
    rev,         \* the reversal branch was taken on bar i
    new_ep,      \* the extreme point was replaced on bar i
    high1, low1, \* sarext: high[1], low[1] as read by the seed, until bar 1 is processed
    price,       \* rsi: prices[i]
    avg_gain, avg_loss,      \* rsi.rs 64-65
    rsi_i,       \* rsi: result[i]
    high, low, close,        \* the directional chain: the whole input series
    out,         \* the directional chain: the series returned
    period_1,    \* mama: period[i-1] as bar i read it
    clamped,     \* mama: period[i] after the clamps, before it is smoothed
    period_i,    \* mama: period[i] as stored
    close_i,     \* mama: close[i]
    alpha_i,     \* mama: alpha of bar i
    mama_val, fama_val       \* mama.rs 89-90

callVars == <<fn, pc, err, args, len, i>>
sarState == <<low_len, hi, lo, hi_1, lo_1, is_long, sar, ep, af,
              prev_sar, tent, rev, new_ep, high1, low1>>
rsiState == <<price, avg_gain, avg_loss, rsi_i>>

dmiState == <<high, low, close, out>>

mamaState == <<period_1, clamped, period_i, close_i, alpha_i, mama_val, fama_val>>

vars == <<callVars, sarState, rsiState, dmiState, mamaState>>

notSar == <<rsiState, dmiState, mamaState>>
notRsi == <<sarState, dmiState, mamaState>>
notDmi == <<sarState, rsiState, mamaState>>
notMama == <<sarState, rsiState, dmiState>>

-----------------------------------------------------------------------------
(* Bounds of the model. *)

MaxBars == 5        \* longest high/low series
MaxPrice == 2       \* prices are the integers 0 .. MaxPrice
MaxPeriod == 2      \* largest period argument
MaxRsiLen == 7      \* longest price series given to rsi
DmiBars == 3        \* longest high/low/close series given to the directional chain
DmiPrice == 1       \* its prices are the integers 0 .. DmiPrice
SeriesLen == 4      \* longest series given to a function taken as a whole
SeriesPrice == 3    \* its prices are the integers 0 .. SeriesPrice
SeriesBars == 3     \* longest high/low series given to sar taken as a whole
TrendLen == 5       \* longest rising or falling high/low series
MamaLen == 40       \* longest close series given to mama

Prices == 0 .. MaxPrice

-----------------------------------------------------------------------------
(* f64 arithmetic. *)

Abs(k) == IF k < 0 THEN -k ELSE k

RECURSIVE GCD(_, _)
GCD(a, b) == IF b = 0 THEN a ELSE GCD(b, a % b)

NaN == <<0, 0>>
PosInf == <<1, 0>>
NegInf == <<-1, 0>>

Sign(k) == IF k > 0 THEN 1 ELSE IF k < 0 THEN -1 ELSE 0

\* n/d as a value; d may be negative or zero
F(n, d) ==
    IF d = 0 THEN <<Sign(n), 0>>
    ELSE LET g == GCD(Abs(n), Abs(d))
             s == IF d < 0 THEN -1 ELSE 1
         IN  <<(s * n) \div g, Abs(d) \div g>>

FInt(k) == <<k, 1>>

IsNaN(x) == x = NaN
IsInf(x) == x[2] = 0 /\ x[1] # 0
IsFinite(x) == x[2] > 0

FNeg(x) == <<-x[1], x[2]>>

FAdd(x, y) ==
    IF IsNaN(x) \/ IsNaN(y) THEN NaN
    ELSE IF IsInf(x) THEN (IF IsInf(y) /\ y # x THEN NaN ELSE x)
    ELSE IF IsInf(y) THEN y
    ELSE LET g == GCD(x[2], y[2])
             m == (x[2] \div g) * y[2]
         IN  F(x[1] * (m \div x[2]) + y[1] * (m \div y[2]), m)

FSub(x, y) == FAdd(x, FNeg(y))

FMul(x, y) ==
    IF IsNaN(x) \/ IsNaN(y) THEN NaN
    ELSE IF IsInf(x) \/ IsInf(y) THEN <<Sign(x[1]) * Sign(y[1]), 0>>
    ELSE F(x[1] * y[1], x[2] * y[2])

FDiv(x, y) ==
    IF IsNaN(x) \/ IsNaN(y) THEN NaN
    ELSE IF IsInf(y) THEN (IF IsInf(x) THEN NaN ELSE FInt(0))
    ELSE IF IsInf(x) THEN <<x[1] * (IF y[1] < 0 THEN -1 ELSE 1), 0>>
    ELSE F(x[1] * y[2], x[2] * y[1])

\* IEEE comparisons: false as soon as one side is NaN
FLt(x, y) ==
    /\ ~IsNaN(x) /\ ~IsNaN(y)
    /\ IF x[2] = 0 /\ y[2] = 0 THEN x[1] < y[1]
       ELSE x[1] * y[2] < y[1] * x[2]

FEq(x, y) == ~IsNaN(x) /\ ~IsNaN(y) /\ x = y
FLe(x, y) == FLt(x, y) \/ FEq(x, y)
FGt(x, y) == FLt(y, x)
FGe(x, y) == FLe(y, x)

FAbs(x) == IF x[1] < 0 THEN FNeg(x) ELSE x

\* f64::min / f64::max: a NaN operand yields the other operand
FMin(x, y) == IF IsNaN(x) THEN y ELSE IF IsNaN(y) THEN x ELSE IF FLt(y, x) THEN y ELSE x
FMax(x, y) == IF IsNaN(x) THEN y ELSE IF IsNaN(y) THEN x ELSE IF FLt(x, y) THEN y ELSE x

Zero == FInt(0)

-----------------------------------------------------------------------------
(* The arguments the calls are tried with; acceleration factors are        *)
(* multiples of 1/4.                                                       *)

Q(k) == F(k, 4)

SarArgs ==
    { [acceleration |-> Q(a), max_acceleration |-> Q(m)] :
        a \in {0, 1, 2}, m \in {1, 3} }

SarextArgs ==
    { [start_value |-> FInt(s), offset_on_reverse |-> FInt(o),
       af_init_long |-> Q(1), af_long |-> Q(1), af_max_long |-> Q(2),
       af_init_short |-> Q(k), af_short |-> Q(1), af_max_short |-> Q(3)] :
        s \in {0, 1}, o \in {0, 1}, k \in {2, 4} }

-----------------------------------------------------------------------------
(* sar: src/src/overlap/sar.rs *)

\* lines 42-61: the error returned before any output is computed
SarCheck(hl, ll, a) ==
    IF hl = 0 \/ ll = 0 THEN "InvalidInput"
    ELSE IF hl # ll THEN "MismatchedInputs"
    ELSE IF FLe(a.acceleration, Zero) \/ FLe(a.max_acceleration, Zero) THEN "InvalidParameter"
    ELSE IF FGt(a.acceleration, a.max_acceleration) THEN "InvalidInput"
    ELSE IF hl < 2 THEN "InvalidInput"
    ELSE "none"

\* af = (af + step).min(max)
IncAfNoCap(a, step, max) == FAdd(a, step)
IncAf(a, step, max) == FMin(FAdd(a, step), max)

\* sar = prev_sar + af * (ep - prev_sar)
ParabolaAway(s, a, e) == FAdd(s, FMul(a, FSub(s, e)))
Parabola(s, a, e) == FAdd(s, FMul(a, FSub(e, s)))

\* lines 90-100: the extreme point is refreshed from bar i-1
SarTopEp(long, e, h1, l1) ==
    IF long THEN (IF FGt(FInt(h1), e) THEN FInt(h1) ELSE e)
    ELSE (IF FLt(FInt(l1), e) THEN FInt(l1) ELSE e)

SarTopAf(long, e, a, h1, l1) ==
    IF long THEN (IF FGt(FInt(h1), e) THEN IncAf(a, args.acceleration, args.max_acceleration) ELSE a)
    ELSE (IF FLt(FInt(l1), e) THEN IncAf(a, args.acceleration, args.max_acceleration) ELSE a)

\* lines 113, 132: the reversal test against the clamped value
ReversesStrict(long, h, l, c) == IF long THEN FLt(FInt(l), c) ELSE FGt(FInt(h), c)
Reverses(long, h, l, c) == IF long THEN FLe(FInt(l), c) ELSE FGe(FInt(h), c)

\* lines 121, 140, with a test that never holds
ExtendsNever(long, h, l, e) == FALSE

\* lines 121, 140: bar i sets a new extreme
Extends(long, h, l, e) == IF long THEN FGt(FInt(h), e) ELSE FLt(FInt(l), e)

NoClampLong(s, l, l1) == s

NoClampShort(s, h, h1) == s

\* line 110 / line 129
ClampLong(s, l, l1) == FMin(FMin(s, FInt(l)), FInt(l1))
ClampShort(s, h, h1) == FMax(FMax(s, FInt(h)), FInt(h1))

SarReject ==
    /\ pc = "call" /\ fn = "sar"
    /\ SarCheck(len, low_len, args) # "none"
    /\ pc' = "err"
    /\ err' = SarCheck(len, low_len, args)
    /\ UNCHANGED <<fn, args, len, low_len, i, hi, lo, hi_1, lo_1,
                   is_long, sar, ep, af, prev_sar, tent, rev, new_ep, high1, low1>>
    /\ UNCHANGED notSar

\* line 72, with a first side that is Long on equal highs too
StartsLongOrFlat(h0, h1) == h1 >= h0

\* line 72 (sarext.rs 97): the side the automaton starts on
StartsLong(h0, h1) == h1 > h0

\* lines 63-86: the automaton is seeded from bars 0 and 1
SarInit ==
    /\ pc = "call" /\ fn = "sar"
    /\ SarCheck(len, low_len, args) = "none"
    /\ \E h0 \in Prices, l0 \in Prices, h1 \in Prices, l1 \in Prices :
        /\ l0 <= h0 /\ l1 <= h1
        /\ hi_1' = h0 /\ lo_1' = l0 /\ hi' = h1 /\ lo' = l1
        /\ af' = args.acceleration
        /\ IF StartsLong(h0, h1)
           THEN is_long' = TRUE /\ sar' = FInt(l0) /\ ep' = FInt(h1)
           ELSE is_long' = FALSE /\ sar' = FInt(h0) /\ ep' = FInt(l1)
    /\ i' = 1
    /\ pc' = IF len = 2 THEN "done" ELSE "scan"
    /\ UNCHANGED <<fn, err, args, len, low_len, prev_sar, tent, rev, new_ep, high1, low1>>
    /\ UNCHANGED notSar

\* lines 88-148: one iteration of the scan loop, on bar i+1
SarStep ==
    /\ pc = "scan" /\ fn = "sar"
    /\ i + 1 < len
    /\ \E h \in Prices, l \in Prices :
        /\ l <= h
        /\ \E ep0 \in {SarTopEp(is_long, ep, hi, lo)},
              af0 \in {SarTopAf(is_long, ep, af, hi, lo)} :
           \E t \in {Parabola(sar, af0, ep0)} :
           \E c \in {IF is_long THEN ClampLong(t, l, lo) ELSE ClampShort(t, h, hi)} :
           \E r \in {Reverses(is_long, h, l, c)}, x \in {Extends(is_long, h, l, ep0)} :
               /\ prev_sar' = sar
               /\ tent' = t
               /\ rev' = r
               /\ new_ep' = (~r /\ x)
               /\ is_long' = IF r THEN ~is_long ELSE is_long
               /\ sar' = IF r THEN ep0 ELSE c
               /\ ep' = IF r THEN (IF is_long THEN FInt(l) ELSE FInt(h))
                        ELSE IF x THEN (IF is_long THEN FInt(h) ELSE FInt(l))
                        ELSE ep0
               /\ af' = IF r THEN args.acceleration
                        ELSE IF x THEN IncAf(af0, args.acceleration, args.max_acceleration)
                        ELSE af0
        /\ hi_1' = hi /\ lo_1' = lo /\ hi' = h /\ lo' = l
    /\ i' = i + 1
    /\ pc' = IF i + 2 = len THEN "done" ELSE "scan"
    /\ UNCHANGED <<fn, err, args, len, low_len, high1, low1>>
    /\ UNCHANGED notSar

-----------------------------------------------------------------------------
(* sarext: src/src/overlap/sarext.rs *)

\* lines 52-72
SarextCheck(hl, ll, a) ==
    IF hl = 0 \/ ll = 0 THEN "InvalidInput"
    ELSE IF hl # ll THEN "MismatchedInputs"
    ELSE IF \/ FLe(a.af_init_long, Zero) \/ FLe(a.af_long, Zero) \/ FLe(a.af_max_long, Zero)
            \/ FLe(a.af_init_short, Zero) \/ FLe(a.af_short, Zero) \/ FLe(a.af_max_short, Zero)
         THEN "InvalidParameter"
    ELSE IF FGt(a.af_init_long, a.af_max_long) \/ FGt(a.af_init_short, a.af_max_short)
         THEN "InvalidInput"
    ELSE IF hl < 2 THEN "InvalidInput"
    ELSE "none"

SarextReject ==
    /\ pc = "call" /\ fn = "sarext"
    /\ SarextCheck(len, low_len, args) # "none"
    /\ pc' = "err"
    /\ err' = SarextCheck(len, low_len, args)
    /\ UNCHANGED <<fn, args, len, low_len, i, hi, lo, hi_1, lo_1,
                   is_long, sar, ep, af, prev_sar, tent, rev, new_ep, high1, low1>>
    /\ UNCHANGED notSar

\* lines 74-112: the seed, from start_value or from bars 0 and 1.  Bar 0 is
\* the bar processed last; bar 1, which line 97 and line 107 read ahead, is
\* kept for the first iteration of the loop
SarextInit ==
    /\ pc = "call" /\ fn = "sarext"
    /\ SarextCheck(len, low_len, args) = "none"
    /\ \E h0 \in Prices, l0 \in Prices, h1 \in Prices, l1 \in Prices :
        /\ l0 <= h0 /\ l1 <= h1
        /\ hi' = h0 /\ lo' = l0 /\ high1' = h1 /\ low1' = l1
        /\ IF args.start_value # Zero
           THEN /\ sar' = args.start_value
                /\ IF FLt(args.start_value, FDiv(FAdd(FInt(h0), FInt(l0)), FInt(2)))
                   THEN is_long' = TRUE /\ af' = args.af_init_long /\ ep' = FInt(h0)
                   ELSE is_long' = FALSE /\ af' = args.af_init_short /\ ep' = FInt(l0)
           ELSE IF StartsLong(h0, h1)
                THEN is_long' = TRUE /\ sar' = FInt(l0) /\ ep' = FInt(h1)
                     /\ af' = args.af_init_long
                ELSE is_long' = FALSE /\ sar' = FInt(h0) /\ ep' = FInt(l1)
                     /\ af' = args.af_init_short
    /\ i' = 0
    /\ pc' = "scan"
    /\ UNCHANGED <<fn, err, args, len, low_len, hi_1, lo_1, prev_sar, tent, rev, new_ep>>
    /\ UNCHANGED notSar

\* lines 114-161: one iteration of the scan loop, on bar i+1
SarextStep ==
    /\ pc = "scan" /\ fn = "sarext"
    /\ i + 1 < len
    /\ \E h \in Prices, l \in Prices :
        /\ l <= h
        /\ i = 0 => (h = high1 /\ l = low1)
        /\ \E t \in {Parabola(sar, af, ep)} :
           \E c \in {IF is_long THEN ClampLong(t, l, lo) ELSE ClampShort(t, h, hi)} :
           \E r \in {Reverses(is_long, h, l, c)}, x \in {Extends(is_long, h, l, ep)} :
               /\ prev_sar' = sar
               /\ tent' = t
               /\ rev' = r
               /\ new_ep' = (~r /\ x)
               /\ is_long' = IF r THEN ~is_long ELSE is_long
               /\ sar' = IF r THEN (IF is_long THEN FAdd(ep, args.offset_on_reverse)
                                    ELSE FSub(ep, args.offset_on_reverse))
                        ELSE c
               /\ ep' = IF r THEN (IF is_long THEN FInt(l) ELSE FInt(h))
                        ELSE IF x THEN (IF is_long THEN FInt(h) ELSE FInt(l))
                        ELSE ep
               /\ af' = IF r THEN (IF is_long THEN args.af_init_short ELSE args.af_init_long)
                        ELSE IF x THEN (IF is_long THEN IncAf(af, args.af_long, args.af_max_long)
                                        ELSE IncAf(af, args.af_short, args.af_max_short))
                        ELSE af
        /\ hi_1' = hi /\ lo_1' = lo /\ hi' = h /\ lo' = l
    /\ high1' = 0 /\ low1' = 0
    /\ i' = i + 1
    /\ pc' = IF i + 2 = len THEN "done" ELSE "scan"
    /\ UNCHANGED <<fn, err, args, len, low_len>>
    /\ UNCHANGED notSar

\* the locals of a function that is not the one called
NoSar ==
    /\ low_len = 0 /\ hi = 0 /\ lo = 0 /\ hi_1 = 0 /\ lo_1 = 0
    /\ is_long = FALSE /\ sar = NaN /\ ep = NaN /\ af = NaN
    /\ prev_sar = NaN /\ tent = NaN /\ rev = FALSE /\ new_ep = FALSE
    /\ high1 = 0 /\ low1 = 0

NoRsi == price = 0 /\ avg_gain = NaN /\ avg_loss = NaN /\ rsi_i = NaN

NoDmi == high = <<>> /\ low = <<>> /\ close = <<>> /\ out = <<>>

NoMama ==
    /\ period_1 = NaN /\ clamped = NaN /\ period_i = NaN
    /\ close_i = NaN /\ alpha_i = NaN /\ mama_val = NaN /\ fama_val = NaN

NotSar == NoRsi /\ NoDmi /\ NoMama
NotRsi == NoSar /\ NoDmi /\ NoMama
NotDmi == NoSar /\ NoRsi /\ NoMama
NotMama == NoSar /\ NoRsi /\ NoDmi

InitSarCall ==
    /\ pc = "call" /\ err = "none"
    /\ len \in 0 .. MaxBars /\ low_len \in 0 .. MaxBars
    /\ i = 0 /\ hi = 0 /\ lo = 0 /\ hi_1 = 0 /\ lo_1 = 0
    /\ is_long = FALSE /\ sar = NaN /\ ep = NaN /\ af = NaN
    /\ prev_sar = NaN /\ tent = NaN /\ rev = FALSE /\ new_ep = FALSE
    /\ high1 = 0 /\ low1 = 0
    /\ NotSar

InitSar ==
    /\ InitSarCall
    /\ \/ fn = "sar" /\ args \in SarArgs
       \/ fn = "sarext" /\ args \in SarextArgs

NextSar == SarReject \/ SarInit \/ SarStep \/ SarextReject \/ SarextInit \/ SarextStep

SpecSar == InitSar /\ [][NextSar]_vars

-----------------------------------------------------------------------------
(* rsi: src/src/momentum/rsi.rs *)

Hundred == FInt(100)
One == FInt(1)

\* lines 39-45: validate_prices accepts every finite series, the empty one
\* included; validate_period; the length test
RsiCheck(n, a) ==
    IF a.period = 0 THEN "InvalidParameter"
    ELSE IF n <= a.period THEN "InsufficientData"
    ELSE "none"

\* lines 55-57
Gain(change) == IF change > 0 THEN FInt(change) ELSE Zero
LossSigned(change) == IF change < 0 THEN FInt(change) ELSE Zero
Loss(change) == IF change < 0 THEN FInt(-change) ELSE Zero

RECURSIVE FSum(_)
FSum(xs) == IF xs = <<>> THEN Zero ELSE FAdd(Head(xs), FSum(Tail(xs)))

\* lines 61-62: the mean of the first `period` gains (losses) of the prices ps
SeedGain(ps, p) == FDiv(FSum([k \in 1 .. p |-> Gain(ps[k + 1] - ps[k])]), FInt(p))
SeedLossOfLast(ps, p) == FDiv(Loss(ps[p + 1] - ps[p]), FInt(p))
SeedLoss(ps, p) == FDiv(FSum([k \in 1 .. p |-> Loss(ps[k + 1] - ps[k])]), FInt(p))

\* lines 77-78 with 1.0 in place of 1.0 - alpha
SmoothUndamped(alpha, x, avg) == FAdd(FMul(alpha, x), avg)

\* lines 77-78: alpha * x + (1.0 - alpha) * avg
Smooth(alpha, x, avg) == FAdd(FMul(alpha, x), FMul(FSub(One, alpha), avg))

\* lines 68-73 and 80-85, with rs = avg_loss / avg_gain
RsiValueOfLoss(g, l) ==
    IF FEq(g, Zero) THEN Hundred
    ELSE FSub(Hundred, FDiv(Hundred, FAdd(One, FDiv(l, g))))

\* lines 68-73 and 80-85
RsiValue(g, l) ==
    IF FEq(l, Zero) THEN Hundred
    ELSE FSub(Hundred, FDiv(Hundred, FAdd(One, FDiv(g, l))))

RsiReject ==
    /\ pc = "call" /\ fn = "rsi"
    /\ RsiCheck(len, args) # "none"
    /\ pc' = "err"
    /\ err' = RsiCheck(len, args)
    /\ UNCHANGED <<fn, args, len, i, rsiState, notRsi>>

\* lines 47-73: the seed, from prices[0 ..= period]
RsiInit ==
    /\ pc = "call" /\ fn = "rsi"
    /\ RsiCheck(len, args) = "none"
    /\ \E ps \in [1 .. args.period + 1 -> Prices] :
       \E g \in {SeedGain(ps, args.period)}, l \in {SeedLoss(ps, args.period)} :
        /\ price' = ps[args.period + 1]
        /\ avg_gain' = g
        /\ avg_loss' = l
        /\ rsi_i' = RsiValue(g, l)
    /\ i' = args.period
    /\ pc' = IF args.period + 1 = len THEN "done" ELSE "scan"
    /\ UNCHANGED <<fn, err, args, len, notRsi>>

\* lines 76-86: one iteration, on prices[i+1]
RsiStep ==
    /\ pc = "scan" /\ fn = "rsi"
    /\ i + 1 < len
    /\ \E p \in Prices :
       \E alpha \in {FDiv(One, FInt(args.period))} :
       \E g \in {Smooth(alpha, Gain(p - price), avg_gain)},
          l \in {Smooth(alpha, Loss(p - price), avg_loss)} :
        /\ price' = p
        /\ avg_gain' = g
        /\ avg_loss' = l
        /\ rsi_i' = RsiValue(g, l)
    /\ i' = i + 1
    /\ pc' = IF i + 2 = len THEN "done" ELSE "scan"
    /\ UNCHANGED <<fn, err, args, len, notRsi>>

RsiArgs == { [period |-> p] : p \in 0 .. MaxPeriod }

InitRsi ==
    /\ pc = "call" /\ err = "none" /\ fn = "rsi"
    /\ args \in RsiArgs
    /\ len \in 0 .. MaxRsiLen
    /\ i = 0
    /\ NoRsi /\ NotRsi

NextRsi == RsiReject \/ RsiInit \/ RsiStep

SpecRsi == InitRsi /\ [][NextRsi]_vars

\* C5: every defined entry of rsi (index >= period) lies in [0, 100].
C5_RsiInRange ==
    (fn = "rsi" /\ pc \in {"scan", "done"}) =>
        /\ i >= args.period
        /\ FGe(rsi_i, Zero) /\ FLe(rsi_i, Hundred)

\* an entry strictly inside the interval, after the recursion has run on
\* both gains and losses
C5_Witness ==
    /\ fn = "rsi" /\ pc \in {"scan", "done"} /\ i > args.period
    /\ FGt(avg_gain, Zero) /\ FGt(avg_loss, Zero)
    /\ FGt(rsi_i, Zero) /\ FLt(rsi_i, Hundred)

-----------------------------------------------------------------------------
(* The directional movement chain: src/src/momentum/plus_dm.rs, minus_dm.rs, *)
(* plus_di.rs, minus_di.rs, dx.rs, adx.rs; src/src/volatility/trange.rs,     *)
(* atr.rs; src/src/overlap/ema.rs.  A series is a sequence; entry k of a     *)
(* sequence is index k-1 of the Rust slice.                                  *)

\* x.abs() < 1e-12.  The values of the model are multiples of
\* 1/MaxPeriod^DmiBars, so the only one below 1e-12 in magnitude is 0.
NearZero(x) == IsFinite(x) /\ x[1] = 0

\* plus_dm.rs 17-26, with up >= down in place of up > down
PlusDmOnTie(h, l) ==
    [k \in 1 .. Len(h) |->
        IF k = 1 THEN NaN
        ELSE IF h[k] - h[k-1] > 0 /\ h[k] - h[k-1] >= l[k-1] - l[k]
             THEN FInt(h[k] - h[k-1]) ELSE Zero]

\* plus_dm.rs 17-26
PlusDm(h, l) ==
    [k \in 1 .. Len(h) |->
        IF k = 1 THEN NaN
        ELSE IF h[k] - h[k-1] > 0 /\ h[k] - h[k-1] > l[k-1] - l[k]
             THEN FInt(h[k] - h[k-1]) ELSE Zero]

\* minus_dm.rs 17-26
MinusDm(h, l) ==
    [k \in 1 .. Len(h) |->
        IF k = 1 THEN NaN
        ELSE IF l[k-1] - l[k] > 0 /\ l[k-1] - l[k] > h[k] - h[k-1]
             THEN FInt(l[k-1] - l[k]) ELSE Zero]

Max2(a, b) == IF a >= b THEN a ELSE b

\* trange.rs 73-87
TRange(h, l, c) ==
    [k \in 1 .. Len(h) |->
        IF k = 1 THEN FInt(h[1] - l[1])
        ELSE FInt(Max2(Max2(h[k] - l[k], Abs(h[k] - c[k-1])), Abs(l[k] - c[k-1])))]

\* atr.rs 39-52 with trange.rs 40-71, as reached from plus_di / minus_di
\* (plus_di.rs 22-25 first)
DmiCheck(h, l, c, p) ==
    IF Len(h) # Len(c) \/ Len(l) # Len(c) THEN "MismatchedInputs"
    ELSE IF Len(h) = 0 THEN "InvalidInput"
    ELSE IF p = 0 THEN "InvalidParameter"
    ELSE IF Len(h) < p THEN "InsufficientData"
    ELSE IF \E k \in 1 .. Len(h) : h[k] < l[k] \/ h[k] < c[k] \/ l[k] > c[k]
         THEN "InvalidInput"
    ELSE "none"

\* atr.rs 57-67: entry k of ATR over the true ranges tr
RECURSIVE AtrAt(_, _, _)
AtrAt(tr, p, k) ==
    IF k < p THEN NaN
    ELSE IF k = p THEN FDiv(FSum(SubSeq(tr, 1, p)), FInt(p))
    ELSE Smooth(FDiv(One, FInt(p)), tr[k], AtrAt(tr, p, k - 1))

Atr(h, l, c, p) == [k \in 1 .. Len(h) |-> AtrAt(TRange(h, l, c), p, k)]

\* plus_di.rs 28-35, minus_di.rs 28-35
DiOf(dm, atr) ==
    [k \in 1 .. Len(dm) |->
        IF NearZero(atr[k]) THEN Zero
        ELSE FDiv(FMul(Hundred, dm[k]), atr[k])]

PlusDi(h, l, c, p) == DiOf(PlusDm(h, l), SubSeq(Atr(h, l, c, p), 1, Len(h)))
MinusDi(h, l, c, p) == DiOf(MinusDm(h, l), SubSeq(Atr(h, l, c, p), 1, Len(h)))

\* dx.rs 25-35
DxOf(pdi, mdi) ==
    [k \in 1 .. Len(pdi) |->
        IF NearZero(FAdd(FAbs(pdi[k]), FAbs(mdi[k]))) THEN Zero
        ELSE FDiv(FMul(Hundred, FAbs(FSub(pdi[k], mdi[k]))),
                  FAdd(FAbs(pdi[k]), FAbs(mdi[k])))]

Dx(h, l, c, p) ==
    DxOf(SubSeq(PlusDi(h, l, c, p), 1, Len(h)), SubSeq(MinusDi(h, l, c, p), 1, Len(h)))

\* Wilder's coefficient in place of utils.rs 125-127
EmaMultiplierWilder(p) == FDiv(One, FInt(p))

\* utils.rs 125-127
EmaMultiplier(p) == FDiv(FInt(2), FAdd(FInt(p), One))

\* ema.rs 48-60: entry k of the EMA of data
RECURSIVE EmaAt(_, _, _)
EmaAt(data, p, k) ==
    IF k < p THEN NaN
    ELSE IF k = p THEN FDiv(FSum(SubSeq(data, 1, p)), FInt(p))
    ELSE FAdd(FMul(data[k], EmaMultiplier(p)),
              FMul(EmaAt(data, p, k - 1), FSub(One, EmaMultiplier(p))))

Ema(data, p) == [k \in 1 .. Len(data) |-> EmaAt(data, p, k)]

\* adx.rs 22-24: dx_vec, then its ema
Adx(h, l, c, p) == Ema(SubSeq(Dx(h, l, c, p), 1, Len(h)), p)

\* adxr.rs 23-26, with the first operand only
AdxrNoLag(adx_vec, p) ==
    [k \in 1 .. Len(adx_vec) |->
        IF k <= p THEN NaN
        ELSE FDiv(FAdd(adx_vec[k], adx_vec[k]), FInt(2))]

\* adxr.rs 23-26
AdxrOf(adx_vec, p) ==
    [k \in 1 .. Len(adx_vec) |->
        IF k <= p THEN NaN
        ELSE FDiv(FAdd(adx_vec[k], adx_vec[k - p]), FInt(2))]

\* adxr.rs 21-27
Adxr(h, l, c, p) ==
    CHOOSE r \in { AdxrOf(adx_vec, p) :
                     adx_vec \in { SubSeq(Adx(h, l, c, p), 1, Len(h)) } } : TRUE

DmiFns == {"plus_di", "minus_di", "dx", "adx", "adxr"}

DmiReject ==
    /\ pc = "call" /\ fn \in DmiFns
    /\ DmiCheck(high, low, close, args.period) # "none"
    /\ pc' = "err"
    /\ err' = DmiCheck(high, low, close, args.period)
    /\ UNCHANGED <<fn, args, len, i, dmiState, notDmi>>

DmiReturn(series) ==
    /\ pc = "call"
    /\ DmiCheck(high, low, close, args.period) = "none"
    /\ out' = series
    /\ pc' = "done"
    /\ UNCHANGED <<fn, err, args, len, i, high, low, close, notDmi>>

CallPlusDi == fn = "plus_di" /\ DmiReturn(PlusDi(high, low, close, args.period))
CallMinusDi == fn = "minus_di" /\ DmiReturn(MinusDi(high, low, close, args.period))
CallDx == fn = "dx" /\ DmiReturn(Dx(high, low, close, args.period))
CallAdx == fn = "adx" /\ DmiReturn(Adx(high, low, close, args.period))
CallAdxr == fn = "adxr" /\ DmiReturn(Adxr(high, low, close, args.period))

\* the bars the chain accepts: low <= close <= high
DmiBarSet ==
    { b \in [h : 0 .. DmiPrice, l : 0 .. DmiPrice, c : 0 .. DmiPrice] :
        b.l <= b.c /\ b.c <= b.h }

InitDmi ==
    /\ pc = "call" /\ err = "none"
    /\ fn \in DmiFns
    /\ args \in { [period |-> p] : p \in 0 .. MaxPeriod }
    /\ len \in 0 .. DmiBars
    /\ \E bars \in [1 .. len -> DmiBarSet] :
        /\ high = [k \in 1 .. len |-> bars[k].h]
        /\ low = [k \in 1 .. len |-> bars[k].l]
        /\ close = [k \in 1 .. len |-> bars[k].c]
    /\ out = <<>>
    /\ i = 0
    /\ NotDmi

NextDmi ==
    DmiReject \/ CallPlusDi \/ CallMinusDi \/ CallDx \/ CallAdx \/ CallAdxr

SpecDmi == InitDmi /\ [][NextDmi]_vars

-----------------------------------------------------------------------------
(* The functions taken as a whole: a call maps the input series to the error *)
(* or to the series it returns.  Entry k of a sequence is index k-1 of the   *)
(* Rust slice.                                                               *)

\* rsi.rs 64-65, 77-78: avg_gain and avg_loss when entry k is stored
RECURSIVE RsiAvgs(_, _, _)
RsiAvgs(ps, p, k) ==
    IF k = p + 1 THEN [gain |-> SeedGain(ps, p), loss |-> SeedLoss(ps, p)]
    ELSE [gain |-> Smooth(FDiv(One, FInt(p)), Gain(ps[k] - ps[k-1]),
                          RsiAvgs(ps, p, k - 1).gain),
          loss |-> Smooth(FDiv(One, FInt(p)), Loss(ps[k] - ps[k-1]),
                          RsiAvgs(ps, p, k - 1).loss)]

\* rsi.rs 47-88
Rsi(ps, p) ==
    [k \in 1 .. Len(ps) |->
        IF k <= p THEN NaN
        ELSE RsiValue(RsiAvgs(ps, p, k).gain, RsiAvgs(ps, p, k).loss)]

\* sar.rs 72-82: the locals after the seed
SarSeed(h, l, a) ==
    IF h[2] > h[1]
    THEN [is_long |-> TRUE, sar |-> FInt(l[1]), ep |-> FInt(h[2]),
          af |-> a.acceleration, rev |-> FALSE]
    ELSE [is_long |-> FALSE, sar |-> FInt(h[1]), ep |-> FInt(l[2]),
          af |-> a.acceleration, rev |-> FALSE]

\* sar.rs 113-125, 132-144: the locals after the reversal test of a bar
\* (hk, lk) on the clamped value c, given the extreme point e0 and the
\* factor a0 of lines 90-100
SarTurn(s, hk, lk, c, e0, a0, a) ==
    IF Reverses(s.is_long, hk, lk, c)
    THEN [is_long |-> ~s.is_long, sar |-> e0,
          ep |-> IF s.is_long THEN FInt(lk) ELSE FInt(hk),
          af |-> a.acceleration, rev |-> TRUE]
    ELSE IF Extends(s.is_long, hk, lk, e0)
    THEN [is_long |-> s.is_long, sar |-> c,
          ep |-> IF s.is_long THEN FInt(hk) ELSE FInt(lk),
          af |-> IncAf(a0, a.acceleration, a.max_acceleration), rev |-> FALSE]
    ELSE [is_long |-> s.is_long, sar |-> c, ep |-> e0, af |-> a0, rev |-> FALSE]

\* sar.rs 105-110, 129: the clamped value of a bar
SarClamped(s, hk, lk, h1, l1, e0, a0) ==
    IF s.is_long THEN ClampLong(Parabola(s.sar, a0, e0), lk, l1)
    ELSE ClampShort(Parabola(s.sar, a0, e0), hk, h1)

\* sar.rs 89-147: one iteration of the loop, on the bar (hk, lk) that
\* follows the bar (h1, l1), from the locals s
SarBar(s, hk, lk, h1, l1, a) ==
    CHOOSE r \in
        { SarTurn(s, hk, lk, SarClamped(s, hk, lk, h1, l1, e0, a0), e0, a0, a) :
            e0 \in {SarTopEp(s.is_long, s.ep, h1, l1)},
            a0 \in {IF Extends(s.is_long, h1, l1, s.ep)
                    THEN IncAf(s.af, a.acceleration, a.max_acceleration)
                    ELSE s.af} } : TRUE

\* the locals of sar when result[k-1] is stored
RECURSIVE SarAt(_, _, _, _)
SarAt(h, l, a, k) ==
    IF k <= 2 THEN SarSeed(h, l, a)
    ELSE CHOOSE r \in { SarBar(s, h[k], l[k], h[k-1], l[k-1], a) :
                          s \in {SarAt(h, l, a, k - 1)} } : TRUE

\* sar.rs 63-150
Sar(h, l, a) == [k \in 1 .. Len(h) |-> SarAt(h, l, a, k).sar]

\* sarext.rs 82-110: the locals after the seed
SarextSeed(h, l, a) ==
    IF a.start_value # Zero
    THEN IF FLt(a.start_value, FDiv(FAdd(FInt(h[1]), FInt(l[1])), FInt(2)))
         THEN [is_long |-> TRUE, sar |-> a.start_value, ep |-> FInt(h[1]),
               af |-> a.af_init_long, rev |-> FALSE]
         ELSE [is_long |-> FALSE, sar |-> a.start_value, ep |-> FInt(l[1]),
               af |-> a.af_init_short, rev |-> FALSE]
    ELSE IF h[2] > h[1]
         THEN [is_long |-> TRUE, sar |-> FInt(l[1]), ep |-> FInt(h[2]),
               af |-> a.af_init_long, rev |-> FALSE]
         ELSE [is_long |-> FALSE, sar |-> FInt(h[1]), ep |-> FInt(l[2]),
               af |-> a.af_init_short, rev |-> FALSE]

\* sarext.rs 118-158: the locals after the bar (hk, lk), whose clamped
\* value is c
SarextTurn(s, hk, lk, c, a) ==
    IF Reverses(s.is_long, hk, lk, c)
    THEN [is_long |-> ~s.is_long,
          sar |-> IF s.is_long THEN FAdd(s.ep, a.offset_on_reverse)
                  ELSE FSub(s.ep, a.offset_on_reverse),
          ep |-> IF s.is_long THEN FInt(lk) ELSE FInt(hk),
          af |-> IF s.is_long THEN a.af_init_short ELSE a.af_init_long,
          rev |-> TRUE]
    ELSE IF Extends(s.is_long, hk, lk, s.ep)
    THEN [is_long |-> s.is_long, sar |-> c,
          ep |-> IF s.is_long THEN FInt(hk) ELSE FInt(lk),
          af |-> IF s.is_long THEN IncAf(s.af, a.af_long, a.af_max_long)
                 ELSE IncAf(s.af, a.af_short, a.af_max_short),
          rev |-> FALSE]
    ELSE [is_long |-> s.is_long, sar |-> c, ep |-> s.ep, af |-> s.af, rev |-> FALSE]

\* sarext.rs 115-160: one iteration of the loop
SarextBar(s, hk, lk, h1, l1, a) ==
    CHOOSE r \in
        { SarextTurn(s, hk, lk, c, a) :
            c \in {SarClamped(s, hk, lk, h1, l1, s.ep, s.af)} } : TRUE

\* the locals of sarext when result[k-1] is stored
RECURSIVE SarextAt(_, _, _, _)
SarextAt(h, l, a, k) ==
    IF k <= 1 THEN SarextSeed(h, l, a)
    ELSE CHOOSE r \in { SarextBar(s, h[k], l[k], h[k-1], l[k-1], a) :
                          s \in {SarextAt(h, l, a, k - 1)} } : TRUE

\* sarext.rs 74-163
Sarext(h, l, a) == [k \in 1 .. Len(h) |-> SarextAt(h, l, a, k).sar]

\* sarext.rs 178: the arguments sarext_standard passes
StandardArgs ==
    [start_value |-> Zero, offset_on_reverse |-> Zero,
     af_init_long |-> F(1, 50), af_long |-> F(1, 50), af_max_long |-> F(1, 5),
     af_init_short |-> F(1, 50), af_short |-> F(1, 50), af_max_short |-> F(1, 5)]

SeriesReject(f, e) ==
    /\ pc = "call" /\ fn = f
    /\ e # "none"
    /\ pc' = "err"
    /\ err' = e
    /\ UNCHANGED <<fn, args, len, i, dmiState, notDmi>>

SeriesReturn(f, e, series) ==
    /\ pc = "call" /\ fn = f
    /\ e = "none"
    /\ out' = series
    /\ pc' = "done"
    /\ UNCHANGED <<fn, err, args, len, i, high, low, close, notDmi>>

RejectRsi == SeriesReject("rsi", RsiCheck(Len(close), args))
CallRsi == SeriesReturn("rsi", RsiCheck(Len(close), args), Rsi(close, args.period))

RejectSar == SeriesReject("sar", SarCheck(Len(high), Len(low), args))
CallSar == SeriesReturn("sar", SarCheck(Len(high), Len(low), args), Sar(high, low, args))

\* sarext.rs 177-179
RejectSarextStandard ==
    SeriesReject("sarext_standard", SarextCheck(Len(high), Len(low), StandardArgs))
CallSarextStandard ==
    SeriesReturn("sarext_standard", SarextCheck(Len(high), Len(low), StandardArgs),
                 Sarext(high, low, StandardArgs))

\* the price series a call is tried with
SeriesOf(n) == [1 .. n -> 0 .. SeriesPrice]

\* the bars a call is tried with: low <= high
BarSet == { b \in [h : Prices, l : Prices] : b.l <= b.h }

InitCallRsi ==
    /\ fn = "rsi"
    /\ args \in RsiArgs
    /\ len \in 0 .. SeriesLen
    /\ close \in SeriesOf(len)
    /\ high = <<>> /\ low = <<>>

InitCallBars ==
    /\ len \in 0 .. SeriesBars
    /\ \E bars \in [1 .. len -> BarSet] :
        /\ high = [k \in 1 .. len |-> bars[k].h]
        /\ low = [k \in 1 .. len |-> bars[k].l]
    /\ close = <<>>

InitCallSar == fn = "sar" /\ args \in SarArgs /\ InitCallBars

InitCallSarextStandard == fn = "sarext_standard" /\ args = <<>> /\ InitCallBars

InitSeries ==
    /\ pc = "call" /\ err = "none"
    /\ InitCallRsi \/ InitCallSar \/ InitCallSarextStandard
    /\ out = <<>>
    /\ i = 0
    /\ NotDmi

NextSeries ==
    \/ RejectRsi \/ CallRsi
    \/ RejectSar \/ CallSar
    \/ RejectSarextStandard \/ CallSarextStandard

SpecSeries == InitSeries /\ [][NextSeries]_vars

\* Rising and falling series: a first bar, then every high and every low
\* moves by one of these steps in the direction of the series
TrendSteps == {1, 2}
TrendFirstHighs == {0, 2}

RECURSIVE SumTo(_, _)
SumTo(ds, k) == IF k = 0 THEN 0 ELSE ds[k] + SumTo(ds, k - 1)

Trend(x0, ds, dir) == [k \in 1 .. Len(ds) + 1 |-> x0 + dir * SumTo(ds, k - 1)]

InitTrend ==
    /\ pc = "call" /\ err = "none"
    /\ fn = "sar" /\ args \in SarArgs
    /\ len \in 0 .. TrendLen
    /\ IF len = 0 THEN high = <<>> /\ low = <<>>
       ELSE \E h0 \in TrendFirstHighs, dir \in {1, -1} :
            \E dh \in [1 .. len - 1 -> TrendSteps], dl \in [1 .. len - 1 -> TrendSteps] :
                /\ high = Trend(h0, dh, dir)
                /\ low = Trend(0, dl, dir)
                /\ \A k \in 1 .. len : low[k] <= high[k]
    /\ close = <<>>
    /\ out = <<>>
    /\ i = 0
    /\ NotDmi

NextTrend == RejectSar \/ CallSar

SpecTrend == InitTrend /\ [][NextTrend]_vars

-----------------------------------------------------------------------------
(* The building blocks of the directional chain, called on their own: ema,   *)
(* atr, plus_dm and minus_dm.                                                *)

\* ema.rs 44-46
EmaCheck(n, p) ==
    IF n = 0 THEN "InvalidInput"
    ELSE IF p = 0 THEN "InvalidParameter"
    ELSE IF n < p THEN "InsufficientData"
    ELSE "none"

\* atr.rs 39-52, then trange.rs 49-71
AtrCheck(h, l, c, p) ==
    IF Len(h) = 0 \/ Len(l) = 0 \/ Len(c) = 0 THEN "InvalidInput"
    ELSE IF Len(h) # Len(l) \/ Len(h) # Len(c) THEN "MismatchedInputs"
    ELSE IF p = 0 THEN "InvalidParameter"
    ELSE IF Len(h) < p THEN "InsufficientData"
    ELSE IF \E k \in 1 .. Len(h) : h[k] < l[k] \/ h[k] < c[k] \/ l[k] > c[k]
         THEN "InvalidInput"
    ELSE "none"

\* plus_dm.rs 13-16, minus_dm.rs 13-16
DmCheck(h, l) == IF Len(l) # Len(h) THEN "MismatchedInputs" ELSE "none"

\* a series of prices as doubles
Doubles(xs) == [k \in 1 .. Len(xs) |-> FInt(xs[k])]

RejectEma == SeriesReject("ema", EmaCheck(Len(close), args.period))
CallEma ==
    SeriesReturn("ema", EmaCheck(Len(close), args.period), Ema(Doubles(close), args.period))

RejectAtr == SeriesReject("atr", AtrCheck(high, low, close, args.period))
CallAtr ==
    SeriesReturn("atr", AtrCheck(high, low, close, args.period),
                 Atr(high, low, close, args.period))

RejectPlusDm == SeriesReject("plus_dm", DmCheck(high, low))
CallPlusDm == SeriesReturn("plus_dm", DmCheck(high, low), PlusDm(high, low))

RejectMinusDm == SeriesReject("minus_dm", DmCheck(high, low))
CallMinusDm == SeriesReturn("minus_dm", DmCheck(high, low), MinusDm(high, low))

InitCallEma ==
    /\ fn = "ema"
    /\ args \in { [period |-> p] : p \in 0 .. MaxPeriod }
    /\ len \in 0 .. SeriesLen
    /\ close \in SeriesOf(len)
    /\ high = <<>> /\ low = <<>>

InitCallAtr ==
    /\ fn = "atr"
    /\ args \in { [period |-> p] : p \in 0 .. MaxPeriod }
    /\ len \in 0 .. DmiBars
    /\ \E bars \in [1 .. len -> DmiBarSet] :
        /\ high = [k \in 1 .. len |-> bars[k].h]
        /\ low = [k \in 1 .. len |-> bars[k].l]
        /\ close = [k \in 1 .. len |-> bars[k].c]

\* high and low of one length, or low one entry short
InitCallDm ==
    /\ fn \in {"plus_dm", "minus_dm"}
    /\ args = <<>>
    /\ len \in 0 .. SeriesBars
    /\ \E bars \in [1 .. len -> BarSet] :
       \E n \in {len, len - 1} \cap Nat :
        /\ high = [k \in 1 .. len |-> bars[k].h]
        /\ low = [k \in 1 .. n |-> bars[k].l]
    /\ close = <<>>

InitParts ==
    /\ pc = "call" /\ err = "none"
    /\ InitCallEma \/ InitCallAtr \/ InitCallDm
    /\ out = <<>>
    /\ i = 0
    /\ NotDmi

NextParts ==
    \/ RejectEma \/ CallEma
    \/ RejectAtr \/ CallAtr
    \/ RejectPlusDm \/ CallPlusDm
    \/ RejectMinusDm \/ CallMinusDm

SpecParts == InitParts /\ [][NextParts]_vars

-----------------------------------------------------------------------------
(* mama: src/src/overlap/mama.rs.  The model follows the dominant-cycle      *)
(* period through the scan.  The homodyne discriminator's output             *)
(* 2*pi/atan2(im, re) is an input of each bar: it depends on the prices      *)
(* through the Hilbert transform, and takes any value of magnitude >= 2.     *)
(* So is the phase atan2(q1, i1), within (-pi, pi].  The close series is a   *)
(* constant, up to the bar from which it is not a number.                    *)

\* mama.rs 68: the shortest series accepted
MinMamaLen == 32

\* A double is rounded after every operation; the model rounds to tenths.
Ulp == 10
Rnd(x) == IF IsFinite(x) THEN F((x[1] * Ulp) \div x[2], Ulp) ELSE x

\* mama.rs 51-70
MamaCheck(n, a) ==
    IF n = 0 THEN "InvalidInput"
    ELSE IF FLe(a.fast_limit, Zero) \/ FLe(a.slow_limit, Zero) THEN "InvalidParameter"
    ELSE IF FLe(a.fast_limit, a.slow_limit) THEN "InvalidInput"
    ELSE IF FGt(a.fast_limit, One) \/ FGt(a.slow_limit, One) THEN "InvalidInput"
    ELSE IF n < MinMamaLen THEN "InvalidInput"
    ELSE "none"

\* mama.rs 124-126: 2*pi/atan2(im, re) when both im and re are non-zero; the
\* values the model draws for it.  Otherwise period[i] is still 0.0.
Estimates(nonzero) ==
    IF nonzero THEN {NaN, FInt(-8), FInt(7), FInt(80)} ELSE {Zero}

NoRatioUp(x, prev) == x

\* mama.rs 129-131
RatioUp(x, prev) ==
    IF FGt(x, Rnd(FMul(F(3, 2), prev))) THEN Rnd(FMul(F(3, 2), prev)) ELSE x

\* mama.rs 132-134
RatioDown(x, prev) ==
    IF FLt(x, Rnd(FMul(F(67, 100), prev))) THEN Rnd(FMul(F(67, 100), prev)) ELSE x

NoAtLeast6(x) == x

\* mama.rs 135-137
AtLeast6(x) == IF FLt(x, FInt(6)) THEN FInt(6) ELSE x

\* mama.rs 138-140
AtMost50(x) == IF FGt(x, FInt(50)) THEN FInt(50) ELSE x

\* mama.rs 129-140
Constrain(x, prev) == AtMost50(AtLeast6(RatioDown(RatioUp(x, prev), prev)))

\* mama.rs 143
SmoothPeriod(x, prev) ==
    Rnd(FAdd(Rnd(FMul(F(1, 5), x)), Rnd(FMul(F(4, 5), prev))))

\* mama.rs 147-151: atan2(q1, i1), or 0.0 while i1 is 0.0; the values the
\* model draws for it on bar k.  i1[k] is detrender[k-3], which is 0.0 up to
\* bar 8; q1 is not a number once a close is not.
Phases(k, cl) ==
    IF k <= 8 THEN {Zero}
    ELSE IF IsNaN(cl) THEN {Zero, NaN}
    ELSE {F(-157, 50), Zero, F(157, 50)}

\* mama.rs 153-162, without the floor
DeltaPhaseNoFloor(phase, prev) == Rnd(FSub(phase, prev))

\* mama.rs 153-162
DeltaPhase(phase, prev) ==
    IF FLt(Rnd(FSub(phase, prev)), One) THEN One ELSE Rnd(FSub(phase, prev))

\* mama.rs 164, without the limits
AlphaUnclamped(phase, prev, a) == Rnd(FDiv(a.fast_limit, Rnd(FSub(phase, prev))))

\* mama.rs 164-171
Alpha(phase, prev, a) ==
    IF FLt(Rnd(FDiv(a.fast_limit, DeltaPhase(phase, prev))), a.slow_limit)
    THEN a.slow_limit
    ELSE IF FGt(Rnd(FDiv(a.fast_limit, DeltaPhase(phase, prev))), a.fast_limit)
    THEN a.fast_limit
    ELSE Rnd(FDiv(a.fast_limit, DeltaPhase(phase, prev)))

\* mama.rs 174 with 1.0 in place of 1.0 - alpha
MamaUndamped(al, cl, m) == Rnd(FAdd(Rnd(FMul(al, cl)), m))

\* mama.rs 174
MamaUpdate(al, cl, m) ==
    Rnd(FAdd(Rnd(FMul(al, cl)), Rnd(FMul(Rnd(FSub(One, al)), m))))

\* mama.rs 175
FamaUpdate(al, m, f) ==
    Rnd(FAdd(Rnd(FMul(Rnd(FMul(F(1, 2), al)), m)),
             Rnd(FMul(Rnd(FSub(One, Rnd(FMul(F(1, 2), al)))), f))))

\* the closes the model draws
MamaPrices == {FInt(1), FInt(3)}

\* the close of the bar after one whose close is cl
NextCloses(cl) == IF IsNaN(cl) THEN {NaN} ELSE {cl, NaN}

MamaReject ==
    /\ pc = "call" /\ fn = "mama"
    /\ MamaCheck(len, args) # "none"
    /\ pc' = "err"
    /\ err' = MamaCheck(len, args)
    /\ UNCHANGED <<fn, args, len, i, mamaState, notMama>>

\* mama.rs 72-93: every work array starts as 0.0; the scan starts at bar 6
MamaInit ==
    /\ pc = "call" /\ fn = "mama"
    /\ MamaCheck(len, args) = "none"
    /\ i' = 5
    /\ period_1' = Zero /\ clamped' = Zero /\ period_i' = Zero
    /\ \E c0 \in MamaPrices \cup {NaN} : \E c5 \in NextCloses(c0) :
        /\ mama_val' = c0 /\ fama_val' = c0
        /\ close_i' = c5
    /\ alpha_i' = NaN
    /\ pc' = "scan"
    /\ UNCHANGED <<fn, err, args, len, notMama>>

\* mama.rs 94-180: bar i+1.  re and im are not numbers exactly when a close
\* up to this bar is not one.
MamaStep ==
    /\ pc = "scan" /\ fn = "mama"
    /\ i + 1 < len
    /\ \E cl \in NextCloses(close_i) :
        /\ close_i' = cl
        /\ \E nonzero \in BOOLEAN : \E raw \in Estimates(nonzero) :
            /\ IsNaN(raw) <=> IsNaN(cl)
            /\ \E c \in {Constrain(raw, period_i)} :
                /\ clamped' = c
                /\ period_i' = SmoothPeriod(c, period_i)
        /\ \E phase \in Phases(i + 1, cl) :
           \E al \in {Alpha(phase, period_i, args)} :
           \E m \in {MamaUpdate(al, cl, mama_val)} :
            /\ alpha_i' = al
            /\ mama_val' = m
            /\ fama_val' = FamaUpdate(al, m, fama_val)
    /\ period_1' = period_i
    /\ i' = i + 1
    /\ pc' = IF i + 2 = len THEN "done" ELSE "scan"
    /\ UNCHANGED <<fn, err, args, len, notMama>>

MamaArgs ==
    { [fast_limit |-> Q(f), slow_limit |-> s] :
        f \in {0, 2, 5}, s \in {F(1, 10), Q(1), Q(2)} }

InitMama ==
    /\ pc = "call" /\ err = "none"
    /\ fn = "mama"
    /\ args \in MamaArgs
    /\ len \in {0, MinMamaLen - 1, MinMamaLen, MamaLen}
    /\ i = 0
    /\ NoMama /\ NotMama

NextMama == MamaReject \/ MamaInit \/ MamaStep

SpecMama == InitMama /\ [][NextMama]_vars

-----------------------------------------------------------------------------
(* Properties of the functions taken as a whole. *)

Returned(f) == fn = f /\ pc = "done"

StrictlyIncreasing(xs) == \A k \in 2 .. Len(xs) : xs[k] > xs[k-1]
StrictlyDecreasing(xs) == \A k \in 2 .. Len(xs) : xs[k] < xs[k-1]

\* C12: on a strictly increasing price series rsi returns exactly 100 at
\* every index >= period, on a strictly decreasing one exactly 0.
C12_RsiOfMonotoneSeries ==
    Returned("rsi") =>
        /\ StrictlyIncreasing(close) =>
              \A k \in args.period + 1 .. Len(out) : out[k] = Hundred
        /\ StrictlyDecreasing(close) =>
              \A k \in args.period + 1 .. Len(out) : out[k] = Zero

C12_Witness ==
    /\ Returned("rsi")
    /\ StrictlyDecreasing(close)
    /\ Len(close) > args.period + 1
    /\ out[Len(out)] = Zero

\* C13: on bars whose highs and lows both rise strictly, sar never reverses
\* and SAR[i] <= low[i] for i >= 1; on bars whose highs and lows both fall
\* strictly, sar never reverses and SAR[i] >= high[i] for i >= 2.
C13_SarOfTrend ==
    Returned("sar") =>
        /\ (StrictlyIncreasing(high) /\ StrictlyIncreasing(low)) =>
              /\ \A k \in 2 .. Len(out) : FLe(out[k], FInt(low[k]))
              /\ \A k \in 1 .. Len(out) : ~SarAt(high, low, args, k).rev
        /\ (StrictlyDecreasing(high) /\ StrictlyDecreasing(low)) =>
              /\ \A k \in 3 .. Len(out) : FGe(out[k], FInt(high[k]))
              /\ \A k \in 1 .. Len(out) : ~SarAt(high, low, args, k).rev

C13_Witness ==
    /\ Returned("sar")
    /\ Len(out) = TrendLen
    /\ StrictlyIncreasing(high) /\ StrictlyIncreasing(low)
    /\ FGt(out[Len(out)], out[2])
    /\ FLt(out[Len(out)], FInt(low[Len(out) - 1]))

\* C14: sarext_standard returns the series sar returns for acceleration
\* 0.02 and maximum 0.20, bar for bar.
C14_StandardIsSar ==
    Returned("sarext_standard") =>
        out = Sar(high, low, [acceleration |-> F(1, 50), max_acceleration |-> F(1, 5)])

\* Wilder's average of xs[1..k]: the mean of the first p entries, then
\* ((p-1)*previous + xs[k]) / p
RECURSIVE WilderAt(_, _, _)
WilderAt(xs, p, k) ==
    IF k = p THEN FDiv(FSum(SubSeq(xs, 1, p)), FInt(p))
    ELSE FDiv(FAdd(FMul(FInt(p - 1), WilderAt(xs, p, k - 1)), xs[k]), FInt(p))

\* the rises and the falls of a price series, entry k from ps[k] to ps[k+1]
Rises(ps) == [k \in 1 .. Len(ps) - 1 |-> FMax(FInt(ps[k + 1] - ps[k]), Zero)]
Falls(ps) == [k \in 1 .. Len(ps) - 1 |-> FMax(FInt(ps[k] - ps[k + 1]), Zero)]

UpMove(k) == high[k] - high[k - 1]
DownMove(k) == low[k - 1] - low[k]

C26_DirectionalMovement ==
    /\ Returned("plus_dm") =>
        /\ Len(out) = Len(high)
        /\ \A k \in 1 .. Len(out) :
            IF k = 1 THEN IsNaN(out[k])
            ELSE /\ out[k] = IF UpMove(k) > 0 /\ UpMove(k) > DownMove(k)
                             THEN FInt(UpMove(k)) ELSE Zero
                 /\ out[k] = Zero \/ MinusDm(high, low)[k] = Zero
                 /\ UpMove(k) = DownMove(k) => out[k] = Zero
    /\ Returned("minus_dm") =>
        /\ Len(out) = Len(high)
        /\ \A k \in 1 .. Len(out) :
            IF k = 1 THEN IsNaN(out[k])
            ELSE /\ out[k] = IF DownMove(k) > 0 /\ DownMove(k) > UpMove(k)
                             THEN FInt(DownMove(k)) ELSE Zero
                 /\ out[k] = Zero \/ PlusDm(high, low)[k] = Zero
                 /\ UpMove(k) = DownMove(k) => out[k] = Zero

C26_Witness ==
    /\ Returned("plus_dm") /\ Len(out) >= 3
    /\ \E k \in 2 .. Len(out) : FGt(out[k], Zero)
    /\ \E k \in 2 .. Len(out) : UpMove(k) > 0 /\ UpMove(k) = DownMove(k) /\ out[k] = Zero

SeededSmoothing(in, y, p, a) ==
    /\ Len(y) = Len(in)
    /\ \A k \in 1 .. Len(y) :
        IF k < p THEN IsNaN(y[k])
        ELSE IF k = p THEN y[k] = FDiv(FSum(SubSeq(in, 1, p)), FInt(p))
        ELSE y[k] = FAdd(FMul(a, in[k]), FMul(FSub(One, a), y[k - 1]))
    /\ p = 1 => \A k \in 1 .. Len(y) : y[k] = in[k]

C23_SeededSmoothing ==
    /\ Returned("ema") =>
        SeededSmoothing(SubSeq(Doubles(close), 1, Len(close)), out, args.period,
                        FDiv(FInt(2), FInt(args.period + 1)))
    /\ Returned("atr") =>
        SeededSmoothing(SubSeq(TRange(high, low, close), 1, Len(high)), out, args.period,
                        FDiv(One, FInt(args.period)))

C23_Witness ==
    /\ Returned("ema")
    /\ args.period = 2 /\ Len(out) >= 4
    /\ out[3] # out[2] /\ out[4] # out[3] /\ out[4] # FInt(close[4])

-----------------------------------------------------------------------------
(* Properties of mama's dominant-cycle period. *)

InMamaLoop == fn = "mama" /\ pc \in {"scan", "done"} /\ i >= 6

\* C7 as stated: the period stored in period[i] is within [6, 50] at every
\* bar i >= 6.
C7_StoredPeriodIn6To50 ==
    InMamaLoop => (FGe(period_i, FInt(6)) /\ FLe(period_i, FInt(50)))

\* C7: at every bar i >= 6 whose estimate is a number, the period after the
\* clamps is within [6, 50] and the smoothed period stored in period[i] is
\* within [1.2, 50].
C7_PeriodBounds ==
    (InMamaLoop /\ ~IsNaN(period_i)) =>
        /\ FGe(clamped, FInt(6)) /\ FLe(clamped, FInt(50))
        /\ FGe(period_i, F(6, 5)) /\ FLe(period_i, FInt(50))

C7_Witness ==
    /\ fn = "mama" /\ pc = "scan" /\ i = 6
    /\ clamped = FInt(6)
    /\ period_i = F(6, 5)

\* C8 as stated: the period after both clamps is at most 1.5 times and at
\* least 0.67 times the previous bar's period.
C8_ClampedWithinRatio ==
    InMamaLoop =>
        /\ FLe(clamped, Rnd(FMul(F(3, 2), period_1)))
        /\ FGe(clamped, Rnd(FMul(F(67, 100), period_1)))

\* C8: the period after both clamps, when a number, is at least 0.67 times
\* the previous bar's period and at most the larger of 6 and 1.5 times it.
C8_ClampedWithinRatioOr6 ==
    (InMamaLoop /\ ~IsNaN(clamped)) =>
        /\ FGe(clamped, Rnd(FMul(F(67, 100), period_1)))
        /\ FLe(clamped, FMax(FInt(6), Rnd(FMul(F(3, 2), period_1))))

C8_Witness ==
    /\ InMamaLoop
    /\ FGt(clamped, FInt(6))
    /\ clamped = Rnd(FMul(F(3, 2), period_1))
    /\ FLt(clamped, FInt(50))

C16_ConstantSeries ==
    (InMamaLoop /\ len >= 40 /\ IsFinite(close_i)) =>
        /\ IsFinite(mama_val) /\ IsFinite(fama_val)
        /\ i >= 16 =>
            /\ FLe(FAbs(FSub(mama_val, close_i)), One)
            /\ FLe(FAbs(FSub(fama_val, close_i)), One)

C16_Witness ==
    /\ InMamaLoop /\ len >= 40 /\ i = len - 1
    /\ IsFinite(close_i)
    /\ FLe(FAbs(FSub(mama_val, close_i)), One)
    /\ FLe(FAbs(FSub(fama_val, close_i)), One)

-----------------------------------------------------------------------------
(* Properties of the directional movement chain. *)

\* C6: every defined entry returned by plus_di, minus_di, dx and adx lies in
\* [0, 100].
C6_DirectionalInRange ==
    (fn \in {"plus_di", "minus_di", "dx", "adx"} /\ pc = "done") =>
        \A k \in 1 .. Len(out) :
            ~IsNaN(out[k]) => (FGe(out[k], Zero) /\ FLe(out[k], Hundred))

\* C11: adxr returns the sentinel below index period and, from index period
\* on, the mean of adx's entry at that index and its entry period bars
\* earlier (a sentinel operand makes the mean a sentinel).
C11_AdxrIsLaggedMean ==
    Returned("adxr") =>
        /\ Len(out) = Len(high)
        /\ \A adx_vec \in { SubSeq(Adx(high, low, close, args.period), 1, Len(high)) } :
           \A k \in 1 .. Len(out) :
            IF k <= args.period THEN IsNaN(out[k])
            ELSE out[k] = FDiv(FAdd(adx_vec[k], adx_vec[k - args.period]), FInt(2))

C11_Witness ==
    /\ Returned("adxr")
    /\ \E adx_vec \in { SubSeq(Adx(high, low, close, args.period), 1, Len(high)) } :
       \E k \in args.period + 1 .. Len(out) :
        /\ IsFinite(out[k])
        /\ adx_vec[k] # adx_vec[k - args.period]

\* the positions of the NaN entries of a series
SentinelsOf(xs) == { k \in DOMAIN xs : IsNaN(xs[k]) }

\* what function f of the chain returns
DmiSeries(f, h, l, c, p) ==
    CASE f = "plus_di" -> PlusDi(h, l, c, p)
      [] f = "minus_di" -> MinusDi(h, l, c, p)
      [] f = "dx" -> Dx(h, l, c, p)
      [] f = "adx" -> Adx(h, l, c, p)
      [] f = "adxr" -> Adxr(h, l, c, p)

\* C17 as stated: a successful call of a function of the chain has its NaN
\* entries at the positions where every other successful call with the same
\* period and as many bars has them.
C17_SentinelsIndependentOfData ==
    (fn \in DmiFns /\ pc = "done") =>
        \A bars \in [1 .. len -> DmiBarSet] :
            DmiCheck([k \in 1 .. len |-> bars[k].h], [k \in 1 .. len |-> bars[k].l],
                     [k \in 1 .. len |-> bars[k].c], args.period) = "none"
            => SentinelsOf(DmiSeries(fn, [k \in 1 .. len |-> bars[k].h],
                                     [k \in 1 .. len |-> bars[k].l],
                                     [k \in 1 .. len |-> bars[k].c], args.period))
               = SentinelsOf(out)

\* C18 as stated: a series returned by a function of the chain has an entry
\* that is not NaN.
C18_SomeDefinedEntry ==
    (fn \in DmiFns /\ pc = "done") => \E k \in DOMAIN out : ~IsNaN(out[k])

\* The Wilder recursion of atr.rs applied to a directional movement series,
\* whose first defined entry is the second one: seeded at entry p+1 by the
\* mean of entries 2 .. p+1, then prev + (x - prev)/p.
RECURSIVE WilderDmAt(_, _, _)
WilderDmAt(dm, p, k) ==
    IF k < p + 1 THEN NaN
    ELSE IF k = p + 1 THEN FDiv(FSum(SubSeq(dm, 2, p + 1)), FInt(p))
    ELSE Smooth(FDiv(One, FInt(p)), dm[k], WilderDmAt(dm, p, k - 1))

\* C9: adx is the Wilder recursion over dx: past the seed entry,
\* ADX[i] = (1/period) * DX[i] + (1 - 1/period) * ADX[i-1].
C9_AdxIsWilderOfDx ==
    Returned("adx") =>
        \A k \in args.period + 1 .. Len(out) :
            FEq(out[k],
                Smooth(FDiv(One, FInt(args.period)),
                       Dx(high, low, close, args.period)[k], out[k-1]))

\* C10: plus_di[i] is 100 times the Wilder-smoothed +DM over the
\* Wilder-smoothed true range, and 0 where that true range is near zero.
C10_PlusDiUsesSmoothedDm ==
    Returned("plus_di") =>
        \A k \in args.period + 1 .. Len(out) :
            IF NearZero(Atr(high, low, close, args.period)[k])
            THEN out[k] = Zero
            ELSE FEq(out[k],
                     FDiv(FMul(Hundred,
                               WilderDmAt(PlusDm(high, low), args.period, k)),
                          Atr(high, low, close, args.period)[k]))

-----------------------------------------------------------------------------
(* Properties of sar and sarext. *)

Seeded == pc \in {"scan", "done"}
FirstLoopBar == IF fn = "sar" THEN 2 ELSE 1
InLoop == Seeded /\ i >= FirstLoopBar
BarStep == pc = "scan" /\ i' = i + 1

AfInitOf(long) ==
    IF fn = "sar" THEN args.acceleration
    ELSE IF long THEN args.af_init_long ELSE args.af_init_short
AfStepOf(long) ==
    IF fn = "sar" THEN args.acceleration
    ELSE IF long THEN args.af_long ELSE args.af_short
AfMaxOf(long) ==
    IF fn = "sar" THEN args.max_acceleration
    ELSE IF long THEN args.af_max_long ELSE args.af_max_short
OffsetOf(long) ==
    IF fn = "sar" THEN Zero
    ELSE IF long THEN args.offset_on_reverse ELSE FNeg(args.offset_on_reverse)

\* C1: the acceleration factor never exceeds the maximum of the current
\* side, and it does not decrease from one bar to the next unless the bar
\* reverses the trend.
C1_AfMonotoneCapped ==
    /\ [](Seeded => FLe(af, AfMaxOf(is_long)))
    /\ [][(BarStep /\ is_long' = is_long) => FLe(af, af')]_vars

\* a bar that continues the leg, raises the factor and lands on the cap
C1_Witness ==
    /\ InLoop /\ ~rev /\ new_ep
    /\ af = AfMaxOf(is_long) /\ FLt(AfInitOf(is_long), af)

\* C2: after every bar of the scan loop the emitted SAR is at or below both
\* low[i] and low[i-1] when the automaton is Long, and at or above both
\* high[i] and high[i-1] when it is Short.
C2_SarOutsideBars ==
    InLoop =>
        IF is_long THEN FLe(sar, FInt(lo)) /\ FLe(sar, FInt(lo_1))
        ELSE FGe(sar, FInt(hi)) /\ FGe(sar, FInt(hi_1))

\* C3: the per-bar transition.  Long: when low[i] <= the clamped tentative
\* SAR the automaton turns Short, emits the extreme point held before the bar
\* (plus the offset), takes low[i] as extreme point and the initial factor of
\* the Short side; otherwise it stays Long and emits the clamped value.
\* Short is the mirror image.
C3_Transition ==
    [][BarStep =>
        \E t \in {FAdd(sar, FMul(af, FSub(ep, sar)))} :
        \E c \in {IF is_long THEN FMin(t, FMin(FInt(lo'), FInt(lo)))
                   ELSE FMax(t, FMax(FInt(hi'), FInt(hi)))} :
            IF (IF is_long THEN FLe(FInt(lo'), c) ELSE FGe(FInt(hi'), c))
            THEN /\ is_long' = ~is_long
                 /\ sar' = FAdd(ep, OffsetOf(is_long))
                 /\ ep' = (IF is_long THEN FInt(lo') ELSE FInt(hi'))
                 /\ af' = AfInitOf(~is_long)
            ELSE /\ is_long' = is_long
                 /\ sar' = c
    ]_vars

\* a Long leg that has just been reversed by a bar touching the clamped value
C3_Witness ==
    /\ InLoop /\ rev /\ ~is_long
    /\ fn = "sarext" /\ args.offset_on_reverse # Zero
    /\ FLe(FInt(lo), FMin(tent, FInt(lo_1)))
    /\ ep = FInt(lo) /\ af = AfInitOf(FALSE)

\* C4 as stated: on a Long bar the extreme point is first raised to high[i]
\* (and the factor stepped, capped) and the tentative SAR is then computed
\* from the raised values; symmetric with low[i] on a Short bar.
C4_ExtremeBeforeSar ==
    [][BarStep =>
        LET raise == IF is_long THEN FGt(FInt(hi'), ep) ELSE FLt(FInt(lo'), ep)
            e2 == IF ~raise THEN ep ELSE IF is_long THEN FInt(hi') ELSE FInt(lo')
            a2 == IF ~raise THEN af
                  ELSE FMin(FAdd(af, AfStepOf(is_long)), AfMaxOf(is_long))
        IN  tent' = FAdd(sar, FMul(a2, FSub(e2, sar)))
    ]_vars

\* C4 amended: the tentative SAR of bar i is computed from the extreme point
\* and the factor as bar i-1 left them; the extreme point is raised to
\* high[i] (Long; lowered to low[i] when Short), and the factor stepped and
\* capped, only afterwards and only on a bar that does not reverse.
C4_SarBeforeExtreme ==
    [][BarStep =>
        /\ tent' = FAdd(sar, FMul(af, FSub(ep, sar)))
        /\ ~rev' =>
            LET raise == IF is_long THEN FGt(FInt(hi'), ep) ELSE FLt(FInt(lo'), ep)
            IN  /\ new_ep' = raise
                /\ ep' = (IF ~raise THEN ep ELSE IF is_long THEN FInt(hi') ELSE FInt(lo'))
                /\ af' = (IF ~raise THEN af
                          ELSE FMin(FAdd(af, AfStepOf(is_long)), AfMaxOf(is_long)))
    ]_vars

\* a Long bar that raised the extreme point after a tentative SAR which the
\* raised values would not have produced
C4_Witness ==
    /\ InLoop /\ is_long /\ ~rev /\ new_ep
    /\ ep = FInt(hi)
    /\ tent # FAdd(prev_sar, FMul(af, FSub(ep, prev_sar)))

\* C28: a Long leg reverses on bar i exactly when low[i] <= low[i-1] and
\* low[i] <= the tentative SAR before its clamp; a Short leg reverses exactly
\* when high[i] >= high[i-1] and high[i] >= the tentative SAR before its clamp.
C28_ReversalCondition ==
    [][BarStep =>
        /\ rev' <=> (IF is_long THEN lo' <= lo /\ FLe(FInt(lo'), tent')
                     ELSE hi' >= hi /\ FGe(FInt(hi'), tent'))
        /\ rev' <=> (is_long' # is_long)
    ]_vars

\* a Long bar whose low is at or below the tentative SAR and above the
\* previous low: the leg goes on
C28_Witness ==
    /\ InLoop /\ is_long /\ ~rev
    /\ lo > lo_1
    /\ FLe(FInt(lo), tent)

\* C29: in sar, after the seed and after every bar, the extreme point is at
\* or above the bar's high when Long and at or below its low when Short; the
\* update at the top of the next iteration therefore leaves ep and af as they
\* are, and one bar raises af by one step at most.
C29_ExtremeCoversBar ==
    /\ []((fn = "sar" /\ Seeded /\ i >= 1) =>
            /\ IF is_long THEN FGe(ep, FInt(hi)) ELSE FLe(ep, FInt(lo))
            /\ SarTopEp(is_long, ep, hi, lo) = ep
            /\ SarTopAf(is_long, ep, af, hi, lo) = af)
    /\ [][(fn = "sar" /\ BarStep) => FLe(af', FAdd(af, args.acceleration))]_vars

C29_Witness ==
    /\ fn = "sar" /\ InLoop /\ is_long /\ ~rev /\ new_ep
    /\ ep = FInt(hi) /\ hi > hi_1
    /\ FGt(af, args.acceleration)

\* C25: after the seed, sar, and sarext with start_value = 0, are Long with
\* SAR = low[0] and extreme point high[1] when high[1] > high[0], and Short
\* with SAR = high[0] and extreme point low[1] otherwise; sarext with another
\* start_value has SAR = start_value and is Long exactly when start_value is
\* below (high[0] + low[0]) / 2.  The SAR stored at index 0 is never NaN.
SeededFromBars(h0, l0, h1, l1) ==
    IF h1 > h0 THEN is_long /\ sar = FInt(l0) /\ ep = FInt(h1)
    ELSE ~is_long /\ sar = FInt(h0) /\ ep = FInt(l1)

C25_InitialState ==
    /\ (fn = "sar" /\ Seeded /\ i = 1) =>
        SeededFromBars(hi_1, lo_1, hi, lo) /\ ~IsNaN(sar)
    /\ (fn = "sarext" /\ Seeded /\ i = 0) =>
        /\ ~IsNaN(sar)
        /\ IF args.start_value = Zero THEN SeededFromBars(hi, lo, high1, low1)
           ELSE /\ sar = args.start_value
                /\ is_long <=> FLt(args.start_value, FDiv(FInt(hi + lo), FInt(2)))

C25_Witness ==
    /\ fn = "sarext" /\ Seeded /\ i = 0
    /\ args.start_value # Zero /\ is_long
    /\ high1 <= hi

\* C19 as stated: sar and sarext called with high and low of different
\* lengths, one of them possibly empty, return the MismatchedInputs error.
C19_MismatchedLengthsRejected ==
    (fn \in {"sar", "sarext"} /\ pc # "call" /\ len # low_len) =>
        (pc = "err" /\ err = "MismatchedInputs")

\* C20 as stated: sar and sarext called with one bar, and parameters they
\* accept with two, return the InsufficientData error.
C20_TooShortIsInsufficientData ==
    (/\ pc # "call" /\ len = 1 /\ low_len = 1
     /\ \/ fn = "sar" /\ SarCheck(2, 2, args) = "none"
        \/ fn = "sarext" /\ SarextCheck(2, 2, args) = "none")
    => (pc = "err" /\ err = "InsufficientData")

-----------------------------------------------------------------------------
(* Properties of the error returns. *)

\* C21 as stated: sar called with two bars or more and an acceleration that
\* is not positive, or above the maximum, returns the InvalidParameter error.
C21_InvalidParameterKind ==
    (/\ fn = "sar" /\ pc # "call" /\ len >= 2 /\ low_len = len
     /\ \/ FLe(args.acceleration, Zero) \/ FLe(args.max_acceleration, Zero)
        \/ FGt(args.acceleration, args.max_acceleration))
    => (pc = "err" /\ err = "InvalidParameter")

\* C22 as stated: rsi called with an empty series and a positive period
\* returns the EmptyInput error.
C22_EmptyInputKind ==
    (fn = "rsi" /\ pc # "call" /\ len = 0 /\ args.period >= 1) =>
        (pc = "err" /\ err = "EmptyInput")

=============================================================================
